---- MODULE Spec2Model ----
(***************************************************************************)
(* Chunked upload with cooperative cancellation and status polling, as     *)
(* implemented by the two page scripts of the Blueprint parser             *)
(* (chunked-upload.js, first version and "corrected closure scope"         *)
(* version).  One browser page runs ONE of the two scripts; the variable   *)
(* script says which.  Every action is one JavaScript task: a DOM event    *)
(* handler, a timer callback, or a promise continuation together with the  *)
(* micro-tasks it triggers synchronously (throw -> .catch).                *)
(***************************************************************************)
EXTENDS Integers, Sequences, FiniteSets, TLC

\* ------------------------------------------------------------------ bounds
MaxSubmits == 2      \* form submissions per behaviour
MaxTicks == 2        \* firings of setInterval timers per behaviour
MaxTotalSize == 12   \* sizes explored by the chunk-arithmetic specification
MaxChunkSize == 5    \* chunk sizes explored by the chunk-arithmetic specification
MaxSetupCalls == 3   \* calls of setupCopyButton per button
MaxClicks == 2       \* clicks on copy buttons per behaviour

\* --------------------------------------------------------------- constants
chunkSize == 5 * 1024 * 1024

null == <<>>

\* ------------------------------------------------------------------- state
VARIABLES
  script,              \* "first" or "corrected": which script the page runs
  pollIntervalId,      \* let pollIntervalId
  currentUploadId,     \* let currentUploadId
  parseButton,         \* parseButton.disabled
  errorDisplay,        \* [display, textContent, className]
  resultsArea,         \* resultsArea.style.display
  processingIndicator, \* processingIndicator.style.display
  processingMessage,   \* processingMessage.textContent
  humanContentDiv,     \* humanContentDiv.innerHTML
  attempts,            \* closures of the startChunkedUpload calls, in order
  net,                 \* requests in flight and response bodies being read
  timers,              \* live setInterval timers
  timerSeq,            \* number of timers created so far
  submits,             \* number of submit events handled so far
  wire,                \* history: every request payload ever transmitted
  last,                \* history: the task that ran last
  cTotalSize, cChunkSize, cIndex, cRanges, \* chunk-arithmetic specification
  copyBtn,             \* per copy button: the element, its dataset and listeners
  copyContent,         \* per copy button: the element its selector finds
  setupCalls,          \* history: calls of setupCopyButton per button
  clicks,              \* number of click events dispatched so far
  clipboardWrites,     \* history: calls of navigator.clipboard.writeText
  lastClickWrites      \* history: writeText calls made by the last click

uiVars == <<parseButton, errorDisplay, resultsArea, processingIndicator,
            processingMessage, humanContentDiv>>
sharedVars == <<pollIntervalId, currentUploadId, timers, timerSeq>>
sessVars == <<script, attempts, net, submits, wire, last>>
chunkVars == <<cTotalSize, cChunkSize, cIndex, cRanges>>
copyVars == <<copyBtn, copyContent, setupCalls, clicks, clipboardWrites, lastClickWrites>>
vars == <<uiVars, sharedVars, sessVars, chunkVars, copyVars>>

\* ------------------------------------------------------------ input texts
\* A text is a run-length encoded string: a sequence of runs [c, n] of n
\* characters of class c ("ws" = white space, "x" = anything else).
Run(c, n) == [c |-> c, n |-> n]

RECURSIVE trimStart(_)
trimStart(t) ==
  IF t = <<>> THEN <<>>
  ELSE IF Head(t).c = "ws" THEN trimStart(Tail(t)) ELSE t

RECURSIVE trimEnd(_)
trimEnd(t) ==
  IF t = <<>> THEN <<>>
  ELSE IF t[Len(t)].c = "ws" THEN trimEnd(SubSeq(t, 1, Len(t) - 1)) ELSE t

trim_none(t) == t

trim(t) == trimEnd(trimStart(t))

RECURSIVE blobSize(_)
blobSize(t) == IF t = <<>> THEN 0 ELSE Head(t).n + blobSize(Tail(t))

Texts ==
  { <<>>,
    << Run("ws", 3) >>,
    << Run("x", chunkSize) >>,
    << Run("ws", 1), Run("x", chunkSize - 1), Run("ws", 1) >> }

Tokens == { null, <<"csrf">> }

\* ------------------------------------------------------- chunk arithmetic
Min(a, b) == IF a <= b THEN a ELSE b

totalChunksOf_floor(total, size) == total \div size

\* Math.ceil(totalSize / chunkSize)
totalChunksOf(total, size) ==
  IF total % size = 0 THEN total \div size ELSE (total \div size) + 1

chunkStart(i, size) == i * size
chunkEnd(i, size, total) == Min(chunkStart(i, size) + size, total)

\* Math.round(((i + 1) / totalChunks) * 100)
percentComplete(i, n) == (200 * (i + 1) + n) \div (2 * n)

\* ----------------------------------------------------------------- values
Msg(prefix, chunk, cause) == [prefix |-> prefix, chunk |-> chunk, cause |-> cause]
NoMsg == Msg("", 0, "")

clientIdOf_reused(n) == <<"upload", 0>>

\* `upload-${uuid.v4()}`: a fresh identifier for the n-th attempt
clientIdOf(n) == <<"upload", n>>

\* what the server answers to the n-th /initiate-upload
serverUploadId(n) == <<"srv-upload", n>>
serverTaskId(n) == <<"task", n>>

\* bodies of an ok /initiate-upload response
InitBodies ==
  { [parsable |-> TRUE, status |-> "success", task_id |-> TRUE, upload_id |-> TRUE, message |-> ""],
    [parsable |-> TRUE, status |-> "success", task_id |-> FALSE, upload_id |-> TRUE, message |-> ""],
    [parsable |-> TRUE, status |-> "success", task_id |-> TRUE, upload_id |-> FALSE, message |-> ""],
    [parsable |-> TRUE, status |-> "error", task_id |-> FALSE, upload_id |-> FALSE, message |-> "server message"],
    [parsable |-> FALSE, status |-> "", task_id |-> FALSE, upload_id |-> FALSE, message |-> ""] }

\* bodies of an ok /upload-chunk response
ChunkBodies ==
  { [parsable |-> TRUE, status |-> "success", message |-> ""],
    [parsable |-> TRUE, status |-> "error", message |-> "server message"],
    [parsable |-> TRUE, status |-> "error", message |-> ""],
    [parsable |-> FALSE, status |-> "", message |-> ""] }

\* bodies of a non-ok response of /initiate-upload or /upload-chunk
ErrBodies ==
  { [parsable |-> TRUE, message |-> "server message"],
    [parsable |-> TRUE, message |-> ""],
    [parsable |-> FALSE, message |-> ""] }

TerminalStatuses == {"SUCCESS", "FAILURE", "PARTIAL_FAILURE", "UNEXPECTED_RESULT"}
ProcessingStatuses_short == {"PROCESSING"}

ProcessingStatuses == {"PROCESSING", "PENDING", "STARTED"}

Result(output, error) == [output |-> output, error |-> error]
NoResult == Result(FALSE, FALSE)
StatusBody(st, hasResult, res, err) ==
  [parsable |-> TRUE, status |-> st, hasResult |-> hasResult, result |-> res, error |-> err]

\* bodies of an ok /status/<task> response
StatusBodies ==
  { StatusBody("PENDING", FALSE, NoResult, FALSE),
    StatusBody("STARTED", FALSE, NoResult, FALSE),
    StatusBody("PROCESSING", FALSE, NoResult, FALSE),
    StatusBody("SUCCESS", TRUE, Result(TRUE, FALSE), FALSE),
    StatusBody("SUCCESS", FALSE, NoResult, FALSE),
    StatusBody("PARTIAL_FAILURE", TRUE, Result(TRUE, TRUE), FALSE),
    StatusBody("FAILURE", FALSE, NoResult, TRUE),
    StatusBody("UNEXPECTED_RESULT", FALSE, NoResult, FALSE),
    StatusBody("RETRY", FALSE, NoResult, FALSE),
    [parsable |-> FALSE, status |-> "", hasResult |-> FALSE, result |-> NoResult, error |-> FALSE] }

\* ------------------------------------------ the state a task reads/writes
\* The closure variables and DOM properties as one record, so that the
\* helper functions of the scripts compose; calls lists the display helpers
\* the running task has called.
G ==
  [ pollIntervalId |-> pollIntervalId, currentUploadId |-> currentUploadId,
    timers |-> timers, timerSeq |-> timerSeq,
    parseButton |-> parseButton, errorDisplay |-> errorDisplay,
    resultsArea |-> resultsArea, processingIndicator |-> processingIndicator,
    processingMessage |-> processingMessage, humanContentDiv |-> humanContentDiv,
    calls |-> <<>> ]

SetG(s) ==
  /\ pollIntervalId' = s.pollIntervalId
  /\ currentUploadId' = s.currentUploadId
  /\ timers' = s.timers
  /\ timerSeq' = s.timerSeq
  /\ parseButton' = s.parseButton
  /\ errorDisplay' = s.errorDisplay
  /\ resultsArea' = s.resultsArea
  /\ processingIndicator' = s.processingIndicator
  /\ processingMessage' = s.processingMessage
  /\ humanContentDiv' = s.humanContentDiv

clearInterval_noop(s, id) == s

\* clearInterval(id); clearing null or a dead timer does nothing
clearInterval(s, id) == [s EXCEPT !.timers = {t \in @ : t.id # id}]

stopPolling_leak(s) == [s EXCEPT !.pollIntervalId = null]

\* if (pollIntervalId) { clearInterval(pollIntervalId); pollIntervalId = null; }
stopPolling(s) ==
  IF s.pollIntervalId # null
  THEN [clearInterval(s, s.pollIntervalId) EXCEPT !.pollIntervalId = null]
  ELSE s

showError(s, message, isWarning) ==
  [s EXCEPT !.errorDisplay =
              [display |-> "block", textContent |-> message,
               className |-> IF isWarning THEN "alert alert-warning"
                             ELSE "alert alert-danger"],
            !.processingIndicator = "none",
            !.resultsArea = "none",
            !.calls = Append(@, "displayErrorInline")]

displayErrorInline_keepId(s, message, isWarning) ==
  stopPolling([showError(s, message, isWarning) EXCEPT !.parseButton = FALSE])

\* corrected script
displayErrorInline(s, message, isWarning) ==
  LET s1 == showError(s, message, isWarning)
      s2 == IF s1.pollIntervalId = null THEN [s1 EXCEPT !.parseButton = FALSE] ELSE s1
      s3 == stopPolling(s2)
  IN [s3 EXCEPT !.currentUploadId = null]

\* first script
displayErrorInline1(s, message, isWarning) ==
  stopPolling([showError(s, message, isWarning) EXCEPT !.parseButton = FALSE])

NoOutputPlaceholder == <<"No human-readable output generated.">>
OutputOf(taskId) == <<"output", taskId>>

showResults(s) ==
  [s EXCEPT !.errorDisplay.display = "none",
            !.processingIndicator = "none",
            !.resultsArea = "block",
            !.calls = Append(@, "displayResultsInline")]

showOutput(s, taskResult, taskId) ==
  [s EXCEPT !.humanContentDiv =
      IF taskResult.output THEN OutputOf(taskId) ELSE NoOutputPlaceholder]

IssuesMsg == Msg("Processing completed with issues", 0, "result error")

displayResultsInline_keepId(s, taskResult, taskId) ==
  [showOutput(IF taskResult.error THEN displayErrorInline(showResults(s), IssuesMsg, TRUE)
              ELSE showResults(s), taskResult, taskId)
     EXCEPT !.parseButton = FALSE]

\* corrected script
displayResultsInline(s, taskResult, taskId) ==
  LET s1 == showResults(s)
      s2 == IF taskResult.error THEN displayErrorInline(s1, IssuesMsg, TRUE) ELSE s1
      s3 == showOutput(s2, taskResult, taskId)
  IN [s3 EXCEPT !.parseButton = FALSE, !.currentUploadId = null]

\* first script
displayResultsInline1(s, taskResult, taskId) ==
  LET s1 == showResults(s)
      s2 == IF taskResult.error THEN displayErrorInline1(s1, IssuesMsg, TRUE) ELSE s1
  IN showOutput(s2, taskResult, taskId)

pollTaskStatus_other(s, a) ==
  [clearInterval(s, s.pollIntervalId)
     EXCEPT !.timers = @ \cup {[id |-> <<"interval", s.timerSeq + 1>>, a |-> 1]},
            !.pollIntervalId = <<"interval", s.timerSeq + 1>>,
            !.timerSeq = @ + 1]

\* pollTaskStatus(taskId), up to the return of setInterval; a is the attempt
\* whose closure holds taskId
pollTaskStatus(s, a) ==
  LET s1 == IF s.pollIntervalId # null THEN clearInterval(s, s.pollIntervalId) ELSE s
      id == <<"interval", s.timerSeq + 1>>
  IN [s1 EXCEPT !.timers = @ \cup {[id |-> id, a |-> a]},
                !.pollIntervalId = id,
                !.timerSeq = @ + 1]

\* --------------------------------------------------------------- attempts
\* The closure of one startChunkedUpload call.  sentIdx, acked, pollStarted,
\* ticks, statusLog and outcomes are history; born is the number of the
\* submit event that created the attempt.
NewAttempt(n, textContent) ==
  [ uploadIdForThisAttempt |-> clientIdOf(n),
    totalSize |-> blobSize(textContent),
    confirmedUploadId |-> null, taskId |-> null,
    currentChunkIndex |-> 0, totalChunks |-> 0,
    timeout |-> FALSE, born |-> submits + 1,
    sentIdx |-> <<>>, acked |-> 0, pollStarted |-> FALSE,
    ticks |-> 0, statusLog |-> <<>>, outcomes |-> <<>> ]

Req(kind, a, n, stage) == [kind |-> kind, a |-> a, n |-> n, stage |-> stage]

\* by and seq are not transmitted: the attempt that sent the request and its
\* number among that attempt's requests of the same kind
Payload(url, by, seq, upload_id, total_size, chunk_index, start, end, task_id) ==
  [ url |-> url, by |-> by, seq |-> seq, upload_id |-> upload_id, total_size |-> total_size,
    chunk_index |-> chunk_index, start |-> start, end |-> end, task_id |-> task_id ]

StatusRequests == {w \in wire : w.url = "/status/"}

Attempts == 1 .. Len(attempts)

\* what a task was given: the form fields of a submit event, the way a fetch
\* settled (resp), the body that was read
NoBody == [parsable |-> FALSE]
Input(stage, textContent, csrfToken, resp, body) ==
  [stage |-> stage, text |-> textContent, token |-> csrfToken, resp |-> resp, body |-> body]
NoInput == Input("", <<>>, null, "", NoBody)
Form(textContent, csrfToken) == Input("form", textContent, csrfToken, "", NoBody)
Settled(resp) == Input("fetch", <<>>, null, resp, NoBody)
Body(body) == Input("json", <<>>, null, "ok", body)
ErrBody(body) == Input("errjson", <<>>, null, "notok", body)

\* history: what a continuation of an attempt displayed
Outcome(s) ==
  [ calls |-> s.calls,
    content |-> IF s.calls[1] = "displayResultsInline" THEN s.humanContentDiv
                ELSE s.errorDisplay.textContent ]

\* the task has run: publish the state it leaves
Step(op, inp, a, s, atts, net2, wire2) ==
  /\ SetG(s)
  /\ last' = [op |-> op, a |-> a, calls |-> s.calls, input |-> inp]
  /\ attempts' = IF a \in DOMAIN atts /\ s.calls # <<>> /\ op # "submit"
                 THEN [atts EXCEPT ![a].outcomes = Append(@, Outcome(s))] ELSE atts
  /\ net' = net2
  /\ wire' = wire2
  /\ UNCHANGED <<script, chunkVars, copyVars>>

\* response.json().then(throw ...).catch(() => { throw generic })
notOkMessage(body, generic) ==
  LET thrownByThen == IF body.parsable /\ body.message # "" THEN body.message ELSE generic
  IN generic

ParseErrorMessage == "Unexpected token in JSON"
NetworkErrorMessage == "Failed to fetch"
SupersededMessage == "Upload superseded by a newer request."

ackChunk_stuck(att) == [att EXCEPT !.acked = @ + 1]

\* currentChunkIndex++ after a success acknowledgment
ackChunk(att) == [att EXCEPT !.currentChunkIndex = @ + 1, !.acked = @ + 1]

\* ------------------------------------------------ corrected script: upload
chunkUploadId_client(att) == att.uploadIdForThisAttempt

\* formData.append('upload_id', confirmedUploadId)
chunkUploadId(att) == att.confirmedUploadId

\* uploadNextChunk() up to the return of fetch
uploadNextChunk(s, att, a) ==
  IF s.currentUploadId # att.confirmedUploadId
  THEN [s |-> s, att |-> att, send |-> {}, wire |-> {}]
  ELSE IF att.currentChunkIndex >= att.totalChunks
  THEN [s |-> pollTaskStatus([s EXCEPT !.processingMessage = <<"Upload complete. Processing...">>], a),
        att |-> [att EXCEPT !.pollStarted = TRUE], send |-> {}, wire |-> {}]
  ELSE LET i == att.currentChunkIndex
           start == chunkStart(i, chunkSize)
           end == chunkEnd(i, chunkSize, att.totalSize)
       IN [s |-> [s EXCEPT !.processingMessage = <<"Uploading...", percentComplete(i, att.totalChunks)>>],
           att |-> [att EXCEPT !.sentIdx = Append(@, i)],
           send |-> {Req("chunk", a, i, "fetch")},
           wire |-> {Payload("/upload-chunk", a, Len(att.sentIdx) + 1, chunkUploadId(att),
                             0, i, start, end, null)}]

catchInitiate_silent(s, att, cause) == s

\* .catch of the initiate chain
catchInitiate(s, att, cause) ==
  IF s.currentUploadId = att.uploadIdForThisAttempt
  THEN displayErrorInline(s, Msg("Upload initiation failed", 0, cause), FALSE)
  ELSE s

catchChunk_unguarded(s, att, cause) ==
  displayErrorInline(s, Msg("Upload failed on chunk", att.currentChunkIndex + 1, cause), FALSE)

\* .catch of the chunk chain
catchChunk(s, att, cause) ==
  IF s.currentUploadId = att.confirmedUploadId
  THEN displayErrorInline(s, Msg("Upload failed on chunk", att.currentChunkIndex + 1, cause), FALSE)
  ELSE s

startChunkedUpload(s, csrfToken, textContent) ==
  LET a == Len(attempts) + 1
      att == NewAttempt(a, textContent)
      s1 == [s EXCEPT !.currentUploadId = att.uploadIdForThisAttempt,
                      !.processingIndicator = "flex",
                      !.processingMessage = <<"Initiating upload...">>,
                      !.parseButton = TRUE,
                      !.errorDisplay.display = "none",
                      !.resultsArea = "none"]
  IN Step("submit", Form(textContent, csrfToken), a, stopPolling(s1), Append(attempts, att),
          net \cup {Req("initiate", a, 0, "fetch")},
          wire \cup {Payload("/initiate-upload", a, 1, null, att.totalSize, -1, 0, 0, null)})

\* the form's submit listener
Submit(textContent, csrfToken) ==
  /\ script = "corrected"
  /\ submits < MaxSubmits
  /\ submits' = submits + 1
  /\ LET s1 == [stopPolling(G) EXCEPT !.currentUploadId = null,
                                      !.errorDisplay.display = "none",
                                      !.parseButton = TRUE]
     IN IF textContent = <<>> \/ trim(textContent) = <<>>
        THEN Step("submit", Form(textContent, csrfToken), 0,
                  displayErrorInline(s1, Msg("Please paste some Blueprint text.", 0, ""), FALSE),
                  attempts, net, wire)
        ELSE IF csrfToken = null
        THEN Step("submit", Form(textContent, csrfToken), 0,
                  displayErrorInline(s1, Msg("Client error: CSRF token missing. Please refresh.", 0, ""), FALSE),
                  attempts, net, wire)
        ELSE startChunkedUpload(s1, csrfToken, textContent)

\* fetch('/initiate-upload') settles: first .then, or straight to .catch
InitiateResponse(a, resp) ==
  LET r == Req("initiate", a, 0, "fetch")
      att == attempts[a]
  IN /\ script = "corrected"
     /\ r \in net
     /\ UNCHANGED submits
     /\ IF resp = "reject"
        THEN Step("initiate", Settled(resp), a, catchInitiate(G, att, NetworkErrorMessage), attempts, net \ {r}, wire)
        ELSE IF currentUploadId # att.uploadIdForThisAttempt
        THEN Step("initiate", Settled(resp), a, catchInitiate(G, att, SupersededMessage), attempts, net \ {r}, wire)
        ELSE Step("initiate", Settled(resp), a, G, attempts,
                  (net \ {r}) \cup {Req("initiate", a, 0, IF resp = "ok" THEN "json" ELSE "errjson")},
                  wire)

\* body of a non-ok initiate response has been read (or failed to parse)
InitiateErrJson(a, body) ==
  LET r == Req("initiate", a, 0, "errjson")
  IN /\ script = "corrected"
     /\ r \in net
     /\ UNCHANGED submits
     /\ Step("initiate", ErrBody(body), a,
             catchInitiate(G, attempts[a], notOkMessage(body, "Initiate failed: <status>")),
             attempts, net \ {r}, wire)

\* body of an ok initiate response has been read: second .then
InitiateData(a, initData) ==
  LET r == Req("initiate", a, 0, "json")
      att == attempts[a]
  IN /\ script = "corrected"
     /\ r \in net
     /\ UNCHANGED submits
     /\ IF ~initData.parsable
        THEN Step("initiate", Body(initData), a, catchInitiate(G, att, ParseErrorMessage), attempts, net \ {r}, wire)
        ELSE IF currentUploadId # att.uploadIdForThisAttempt
        THEN Step("initiate", Body(initData), a, G, attempts, net \ {r}, wire)
        ELSE IF initData.status # "success" \/ ~initData.task_id \/ ~initData.upload_id
        THEN Step("initiate", Body(initData), a,
                  catchInitiate(G, att,
                     IF initData.message # "" THEN initData.message
                     ELSE "Failed to get required data (task_id/upload_id) from initiation."),
                  attempts, net \ {r}, wire)
        ELSE LET att1 == [att EXCEPT !.confirmedUploadId = serverUploadId(a),
                                     !.taskId = serverTaskId(a),
                                     !.currentChunkIndex = 0,
                                     !.totalChunks = totalChunksOf(att.totalSize, chunkSize)]
                 s1 == IF currentUploadId = att.uploadIdForThisAttempt
                       THEN [G EXCEPT !.currentUploadId = att1.confirmedUploadId] ELSE G
                 u == uploadNextChunk(s1, att1, a)
             IN Step("initiate", Body(initData), a, u.s, [attempts EXCEPT ![a] = u.att],
                     (net \ {r}) \cup u.send, wire \cup u.wire)

\* fetch('/upload-chunk') settles
ChunkResponse(a, resp) ==
  \E r \in net :
    /\ script = "corrected"
    /\ r.kind = "chunk" /\ r.a = a /\ r.stage = "fetch"
    /\ UNCHANGED submits
    /\ LET att == attempts[a]
       IN IF resp = "reject"
          THEN Step("chunk", Settled(resp), a, catchChunk(G, att, NetworkErrorMessage), attempts, net \ {r}, wire)
          ELSE IF currentUploadId # att.confirmedUploadId
          THEN Step("chunk", Settled(resp), a, catchChunk(G, att, SupersededMessage), attempts, net \ {r}, wire)
          ELSE Step("chunk", Settled(resp), a, G, attempts,
                    (net \ {r}) \cup {[r EXCEPT !.stage = IF resp = "ok" THEN "json" ELSE "errjson"]},
                    wire)

\* body of a non-ok chunk response has been read (or failed to parse)
ChunkErrJson(a, body) ==
  \E r \in net :
    /\ script = "corrected"
    /\ r.kind = "chunk" /\ r.a = a /\ r.stage = "errjson"
    /\ UNCHANGED submits
    /\ Step("chunk", ErrBody(body), a,
            catchChunk(G, attempts[a], notOkMessage(body, "Chunk upload failed: <status>")),
            attempts, net \ {r}, wire)

\* body of an ok chunk response has been read: second .then
ChunkData(a, chunkData) ==
  \E r \in net :
    /\ script = "corrected"
    /\ r.kind = "chunk" /\ r.a = a /\ r.stage = "json"
    /\ UNCHANGED submits
    /\ LET att == attempts[a]
       IN IF ~chunkData.parsable
          THEN Step("chunk", Body(chunkData), a, catchChunk(G, att, ParseErrorMessage), attempts, net \ {r}, wire)
          ELSE IF currentUploadId # att.confirmedUploadId
          THEN Step("chunk", Body(chunkData), a, G, attempts, net \ {r}, wire)
          ELSE IF chunkData.status = "success"
          THEN Step("chunk", Body(chunkData), a, G,
                    [attempts EXCEPT ![a] = [ackChunk(att) EXCEPT !.timeout = TRUE]],
                    net \ {r}, wire)
          ELSE Step("chunk", Body(chunkData), a,
                    catchChunk(G, att, IF chunkData.message # "" THEN chunkData.message
                                       ELSE "Chunk upload reported failure."),
                    attempts, net \ {r}, wire)

\* setTimeout(uploadNextChunk, 0) fires
Timeout(a) ==
  /\ script = "corrected"
  /\ a \in Attempts
  /\ attempts[a].timeout
  /\ UNCHANGED submits
  /\ LET u == uploadNextChunk(G, [attempts[a] EXCEPT !.timeout = FALSE], a)
     IN Step("timeout", NoInput, a, u.s, [attempts EXCEPT ![a] = u.att], net \cup u.send, wire \cup u.wire)

\* ----------------------------------------------- corrected script: polling
\* the setInterval callback fires: fetch(`/status/${taskId}`)
PollTick(t) ==
  /\ t \in timers
  /\ Cardinality(StatusRequests) < MaxTicks
  /\ UNCHANGED submits
  /\ Step("tick", NoInput, t.a, G,
          [attempts EXCEPT ![t.a].ticks = @ + 1],
          net \cup {Req("status", t.a, attempts[t.a].ticks + 1, "fetch")},
          wire \cup {Payload("/status/", t.a, attempts[t.a].ticks + 1, null, 0, -1, 0, 0, attempts[t.a].taskId)})

Logged(atts, a, entry) == [atts EXCEPT ![a].statusLog = Append(@, entry)]

\* .catch of the status chain
catchPoll(s, cause) ==
  displayErrorInline([stopPolling(s) EXCEPT !.parseButton = FALSE],
                     Msg("Error checking task status", 0, cause), FALSE)

\* .then(data => ...) of the status chain
onStatusData(s, data, taskId) ==
  IF data.status \in TerminalStatuses
  THEN LET s1 == [stopPolling(s) EXCEPT !.processingIndicator = "none"]
       IN IF data.status = "SUCCESS" \/ data.status = "PARTIAL_FAILURE"
          THEN displayResultsInline(s1, IF data.hasResult THEN data.result ELSE NoResult, taskId)
          ELSE displayErrorInline(s1,
                 IF data.error THEN Msg("", 0, "task error")
                 ELSE Msg("Task failed with status", 0, data.status), FALSE)
  ELSE IF data.status \in ProcessingStatuses
  THEN [s EXCEPT !.processingIndicator = "flex"]
  ELSE displayErrorInline([stopPolling(s) EXCEPT !.parseButton = FALSE],
                          Msg("Task ended with unexpected status", 0, data.status), FALSE)

\* A status request settles and its promise chain runs to the end.  The
\* first .then reads and writes no script state (it only turns a non-ok
\* response into a rejection after response.text()), so the chain
\*   fetch -> .then(response) -> [response.text() | response.json()] -> .then(data) | .catch
\* is one step, taken when the last of its promises settles.
StatusSettled(r, resp, data) ==
  /\ script = "corrected"
  /\ r \in net
  /\ r.kind = "status"
  /\ UNCHANGED submits
  /\ IF resp = "reject"
     THEN Step("status", Settled(resp), r.a, catchPoll(G, NetworkErrorMessage),
               Logged(attempts, r.a, "TRANSPORT_ERROR"), net \ {r}, wire)
     ELSE IF resp = "notok"
     THEN Step("status", Settled(resp), r.a, catchPoll(G, "HTTP error! Status: <status>"),
               Logged(attempts, r.a, "TRANSPORT_ERROR"), net \ {r}, wire)
     ELSE IF ~data.parsable
     THEN Step("status", Body(data), r.a, catchPoll(G, ParseErrorMessage),
               Logged(attempts, r.a, "TRANSPORT_ERROR"), net \ {r}, wire)
     ELSE Step("status", Body(data), r.a, onStatusData(G, data, attempts[r.a].taskId),
               Logged(attempts, r.a, data.status), net \ {r}, wire)

\* ---------------------------------------------------- first script: upload
\* uploadNextChunk() up to the return of fetch
uploadNextChunk1(s, att, a) ==
  IF s.currentUploadId # att.uploadIdForThisAttempt
  THEN [s |-> [s EXCEPT !.parseButton = FALSE], att |-> att, send |-> {}, wire |-> {}]
  ELSE IF att.currentChunkIndex >= att.totalChunks
  THEN [s |-> pollTaskStatus([s EXCEPT !.processingMessage = <<"Upload complete. Processing...">>], a),
        att |-> [att EXCEPT !.pollStarted = TRUE], send |-> {}, wire |-> {}]
  ELSE LET i == att.currentChunkIndex
           start == chunkStart(i, chunkSize)
           end == chunkEnd(i, chunkSize, att.totalSize)
       IN [s |-> [s EXCEPT !.processingMessage = <<"Uploading...", percentComplete(i, att.totalChunks)>>],
           att |-> [att EXCEPT !.sentIdx = Append(@, i)],
           send |-> {Req("chunk", a, i, "fetch")},
           wire |-> {Payload("/upload-chunk", a, Len(att.sentIdx) + 1, att.uploadIdForThisAttempt,
                             0, i, start, end, null)}]

\* .catch of the initiate chain
catchInitiate1(s, cause) ==
  [displayErrorInline1(s, Msg("Upload initiation failed", 0, cause), FALSE)
     EXCEPT !.parseButton = FALSE, !.processingIndicator = "none"]

\* .catch of the chunk chain
catchChunk1(s, att, cause) ==
  displayErrorInline1(s, Msg("Upload failed on chunk", att.currentChunkIndex + 1, cause), FALSE)

startChunkedUpload1(s, csrfToken, textContent) ==
  LET a == Len(attempts) + 1
      att == NewAttempt(a, textContent)
      s1 == [s EXCEPT !.currentUploadId = att.uploadIdForThisAttempt,
                      !.processingIndicator = "flex",
                      !.processingMessage = <<"Initiating upload...">>,
                      !.parseButton = TRUE,
                      !.errorDisplay.display = "none",
                      !.resultsArea = "none"]
  IN Step("submit", Form(textContent, csrfToken), a, s1, Append(attempts, att),
          net \cup {Req("initiate", a, 0, "fetch")},
          wire \cup {Payload("/initiate-upload", a, 1, att.uploadIdForThisAttempt,
                             att.totalSize, -1, 0, 0, null)})

\* the form's submit listener
Submit1(textContent, csrfToken) ==
  /\ script = "first"
  /\ submits < MaxSubmits
  /\ submits' = submits + 1
  /\ LET s1 == stopPolling(
                 [G EXCEPT !.errorDisplay.display = "none",
                           !.resultsArea = "none",
                           !.humanContentDiv = <<"Results will appear here after parsing.">>,
                           !.processingMessage = <<"Preparing upload...">>,
                           !.processingIndicator = "flex",
                           !.parseButton = TRUE])
     IN IF textContent = <<>> \/ trim(textContent) = <<>>
        THEN Step("submit", Form(textContent, csrfToken), 0,
                  displayErrorInline1(s1, Msg("Please paste some Blueprint text.", 0, ""), FALSE),
                  attempts, net, wire)
        ELSE IF csrfToken = null
        THEN Step("submit", Form(textContent, csrfToken), 0,
                  displayErrorInline1(s1, Msg("Client error: CSRF token missing. Please refresh.", 0, ""), FALSE),
                  attempts, net, wire)
        ELSE startChunkedUpload1(s1, csrfToken, textContent)

\* fetch('/initiate-upload') settles: first .then, or straight to .catch
InitiateResponse1(a, resp) ==
  LET r == Req("initiate", a, 0, "fetch")
  IN /\ script = "first"
     /\ r \in net
     /\ UNCHANGED submits
     /\ IF resp = "reject"
        THEN Step("initiate", Settled(resp), a, catchInitiate1(G, NetworkErrorMessage), attempts, net \ {r}, wire)
        ELSE Step("initiate", Settled(resp), a, G, attempts,
                  (net \ {r}) \cup {Req("initiate", a, 0, IF resp = "ok" THEN "json" ELSE "errjson")},
                  wire)

\* body of a non-ok initiate response has been read (or failed to parse)
InitiateErrJson1(a, body) ==
  LET r == Req("initiate", a, 0, "errjson")
  IN /\ script = "first"
     /\ r \in net
     /\ UNCHANGED submits
     /\ Step("initiate", ErrBody(body), a, catchInitiate1(G, notOkMessage(body, "Initiate failed: <status>")),
             attempts, net \ {r}, wire)

\* body of an ok initiate response has been read: second .then
InitiateData1(a, initData) ==
  LET r == Req("initiate", a, 0, "json")
      att == attempts[a]
  IN /\ script = "first"
     /\ r \in net
     /\ UNCHANGED submits
     /\ IF ~initData.parsable
        THEN Step("initiate", Body(initData), a, catchInitiate1(G, ParseErrorMessage), attempts, net \ {r}, wire)
        ELSE IF initData.status # "success" \/ ~initData.task_id
        THEN Step("initiate", Body(initData), a,
                  catchInitiate1(G, IF initData.message # "" THEN initData.message
                                    ELSE "Failed to get task ID from initiation."),
                  attempts, net \ {r}, wire)
        ELSE LET att1 == [att EXCEPT !.taskId = serverTaskId(a),
                                     !.currentChunkIndex = 0,
                                     !.totalChunks = totalChunksOf(att.totalSize, chunkSize)]
                 u == uploadNextChunk1(G, att1, a)
             IN Step("initiate", Body(initData), a, u.s, [attempts EXCEPT ![a] = u.att],
                     (net \ {r}) \cup u.send, wire \cup u.wire)

\* fetch('/upload-chunk') settles
ChunkResponse1(a, resp) ==
  \E r \in net :
    /\ script = "first"
    /\ r.kind = "chunk" /\ r.a = a /\ r.stage = "fetch"
    /\ UNCHANGED submits
    /\ IF resp = "reject"
       THEN Step("chunk", Settled(resp), a, catchChunk1(G, attempts[a], NetworkErrorMessage), attempts, net \ {r}, wire)
       ELSE Step("chunk", Settled(resp), a, G, attempts,
                 (net \ {r}) \cup {[r EXCEPT !.stage = IF resp = "ok" THEN "json" ELSE "errjson"]},
                 wire)

\* body of a non-ok chunk response has been read (or failed to parse)
ChunkErrJson1(a, body) ==
  \E r \in net :
    /\ script = "first"
    /\ r.kind = "chunk" /\ r.a = a /\ r.stage = "errjson"
    /\ UNCHANGED submits
    /\ Step("chunk", ErrBody(body), a,
            catchChunk1(G, attempts[a], notOkMessage(body, "Chunk upload failed: <status>")),
            attempts, net \ {r}, wire)

\* body of an ok chunk response has been read: second .then
ChunkData1(a, chunkData) ==
  \E r \in net :
    /\ script = "first"
    /\ r.kind = "chunk" /\ r.a = a /\ r.stage = "json"
    /\ UNCHANGED submits
    /\ LET att == attempts[a]
       IN IF ~chunkData.parsable
          THEN Step("chunk", Body(chunkData), a, catchChunk1(G, att, ParseErrorMessage), attempts, net \ {r}, wire)
          ELSE IF chunkData.status = "success"
          THEN LET u == uploadNextChunk1(G, ackChunk(att), a)
               IN Step("chunk", Body(chunkData), a, u.s, [attempts EXCEPT ![a] = u.att],
                       (net \ {r}) \cup u.send, wire \cup u.wire)
          ELSE Step("chunk", Body(chunkData), a,
                    catchChunk1(G, att, IF chunkData.message # "" THEN chunkData.message
                                        ELSE "Chunk upload reported failure."),
                    attempts, net \ {r}, wire)

\* --------------------------------------------------- first script: polling
\* .catch of the status chain
catchPoll1(s, cause) ==
  displayErrorInline1([stopPolling(s) EXCEPT !.parseButton = FALSE],
                      Msg("Error checking task status", 0, cause), FALSE)

\* .then(data => ...) of the status chain
onStatusData1(s, data, taskId) ==
  IF data.status \in TerminalStatuses
  THEN LET s1 == [stopPolling(s) EXCEPT !.processingIndicator = "none", !.parseButton = FALSE]
       IN IF data.status = "SUCCESS" \/ data.status = "PARTIAL_FAILURE"
          THEN displayResultsInline1(s1, IF data.hasResult THEN data.result ELSE NoResult, taskId)
          ELSE displayErrorInline1(s1,
                 IF data.error THEN Msg("", 0, "task error")
                 ELSE Msg("Task failed with status", 0, data.status), FALSE)
  ELSE IF data.status \in ProcessingStatuses
  THEN [s EXCEPT !.processingIndicator = "flex"]
  ELSE displayErrorInline1([stopPolling(s) EXCEPT !.parseButton = FALSE],
                           Msg("Task ended with unexpected status", 0, data.status), FALSE)

\* a status request settles and its promise chain runs to the end (one step,
\* as in StatusSettled)
StatusSettled1(r, resp, data) ==
  /\ script = "first"
  /\ r \in net
  /\ r.kind = "status"
  /\ UNCHANGED submits
  /\ IF resp = "reject"
     THEN Step("status", Settled(resp), r.a, catchPoll1(G, NetworkErrorMessage),
               Logged(attempts, r.a, "TRANSPORT_ERROR"), net \ {r}, wire)
     ELSE IF resp = "notok"
     THEN Step("status", Settled(resp), r.a, catchPoll1(G, "HTTP error! Status: <status>"),
               Logged(attempts, r.a, "TRANSPORT_ERROR"), net \ {r}, wire)
     ELSE IF ~data.parsable
     THEN Step("status", Body(data), r.a, catchPoll1(G, ParseErrorMessage),
               Logged(attempts, r.a, "TRANSPORT_ERROR"), net \ {r}, wire)
     ELSE Step("status", Body(data), r.a, onStatusData1(G, data, attempts[r.a].taskId),
               Logged(attempts, r.a, data.status), net \ {r}, wire)

\* ---------------------------------------------------------- specification
Responses == {"ok", "notok", "reject"}

InitUI ==
  /\ parseButton = FALSE
  /\ errorDisplay = [display |-> "none", textContent |-> NoMsg, className |-> ""]
  /\ resultsArea = "none"
  /\ processingIndicator = "none"
  /\ processingMessage = <<"">>
  /\ humanContentDiv = <<"Results will appear here after parsing.">>

InitSession ==
  /\ pollIntervalId = null
  /\ currentUploadId = null
  /\ timers = {}
  /\ timerSeq = 0
  /\ attempts = <<>>
  /\ net = {}
  /\ submits = 0
  /\ wire = {}
  /\ last = [op |-> "load", a |-> 0, calls |-> <<>>, input |-> NoInput]

ChunksIdle ==
  /\ cTotalSize = 0 /\ cChunkSize = 0 /\ cIndex = 0 /\ cRanges = <<>>

\* the copy buttons: present, no listener yet
CopyButtons == {"copy-text-btn", "copy-json-btn"}

\* copyBtn.textContent as the page is served
OriginalLabel == "Copy"

\* resetTimers: the originalText each pending 2000 ms timer has captured, in
\* the order the timers were set (equal delays expire in that order)
NewButton(exists) ==
  [ exists |-> exists, listenerAttached |-> FALSE, listeners |-> 0,
    textContent |-> OriginalLabel,
    disabled |-> FALSE, pendingWrites |-> 0, resetTimers |-> <<>> ]

CopyLogEmpty ==
  /\ setupCalls = [b \in CopyButtons |-> 0]
  /\ clicks = 0
  /\ clipboardWrites = 0
  /\ lastClickWrites = 0

CopyIdle ==
  /\ copyBtn = [b \in CopyButtons |-> NewButton(TRUE)]
  /\ copyContent = [b \in CopyButtons |-> "blank"]
  /\ CopyLogEmpty

\* the page has loaded one of the two scripts
Init ==
  /\ script \in {"first", "corrected"}
  /\ InitUI
  /\ InitSession
  /\ ChunksIdle
  /\ CopyIdle

Next ==
  \/ \E text \in Texts, tok \in Tokens : Submit1(text, tok)
  \/ \E a \in Attempts, resp \in Responses : InitiateResponse1(a, resp)
  \/ \E a \in Attempts, body \in ErrBodies : InitiateErrJson1(a, body)
  \/ \E a \in Attempts, body \in InitBodies : InitiateData1(a, body)
  \/ \E a \in Attempts, resp \in Responses : ChunkResponse1(a, resp)
  \/ \E a \in Attempts, body \in ErrBodies : ChunkErrJson1(a, body)
  \/ \E a \in Attempts, body \in ChunkBodies : ChunkData1(a, body)
  \/ \E r \in net, resp \in Responses, body \in StatusBodies : StatusSettled1(r, resp, body)
  \/ \E text \in Texts, tok \in Tokens : Submit(text, tok)
  \/ \E a \in Attempts, resp \in Responses : InitiateResponse(a, resp)
  \/ \E a \in Attempts, body \in ErrBodies : InitiateErrJson(a, body)
  \/ \E a \in Attempts, body \in InitBodies : InitiateData(a, body)
  \/ \E a \in Attempts, resp \in Responses : ChunkResponse(a, resp)
  \/ \E a \in Attempts, body \in ErrBodies : ChunkErrJson(a, body)
  \/ \E a \in Attempts, body \in ChunkBodies : ChunkData(a, body)
  \/ \E a \in Attempts : Timeout(a)
  \/ \E t \in timers : PollTick(t)
  \/ \E r \in net, resp \in Responses, body \in StatusBodies : StatusSettled(r, resp, body)

Spec == Init /\ [][Next]_vars

\* Every task of the event loop that is ready runs: a settled fetch, a body
\* that has been read, a due timer.  Submit events are the user's and are not
\* forced.
Deliver ==
  \/ \E a \in Attempts, resp \in Responses : InitiateResponse1(a, resp)
  \/ \E a \in Attempts, body \in ErrBodies : InitiateErrJson1(a, body)
  \/ \E a \in Attempts, body \in InitBodies : InitiateData1(a, body)
  \/ \E a \in Attempts, resp \in Responses : ChunkResponse1(a, resp)
  \/ \E a \in Attempts, body \in ErrBodies : ChunkErrJson1(a, body)
  \/ \E a \in Attempts, body \in ChunkBodies : ChunkData1(a, body)
  \/ \E r \in net, resp \in Responses, body \in StatusBodies : StatusSettled1(r, resp, body)
  \/ \E a \in Attempts, resp \in Responses : InitiateResponse(a, resp)
  \/ \E a \in Attempts, body \in ErrBodies : InitiateErrJson(a, body)
  \/ \E a \in Attempts, body \in InitBodies : InitiateData(a, body)
  \/ \E a \in Attempts, resp \in Responses : ChunkResponse(a, resp)
  \/ \E a \in Attempts, body \in ErrBodies : ChunkErrJson(a, body)
  \/ \E a \in Attempts, body \in ChunkBodies : ChunkData(a, body)
  \/ \E a \in Attempts : Timeout(a)
  \/ \E t \in timers : PollTick(t)
  \/ \E r \in net, resp \in Responses, body \in StatusBodies : StatusSettled(r, resp, body)

SpecLive == Init /\ [][Next]_vars /\ WF_vars(Deliver)

\* ------------------------------------- chunk arithmetic as a specification
\* The arithmetic of startChunkedUpload / uploadNextChunk on its own: a blob
\* of cTotalSize bytes is sliced into chunks of cChunkSize bytes, one slice
\* per step; cRanges lists the [start, end) pairs passed to blob.slice.
InitChunks ==
  /\ script = "corrected"
  /\ InitUI
  /\ InitSession
  /\ CopyIdle
  /\ \/ cTotalSize \in 1 .. MaxTotalSize /\ cChunkSize \in 1 .. MaxChunkSize
     \/ cTotalSize \in {12000000, chunkSize, chunkSize + 1} /\ cChunkSize = chunkSize
  /\ cIndex = 0
  /\ cRanges = <<>>

Slice ==
  /\ cIndex < totalChunksOf(cTotalSize, cChunkSize)
  /\ cRanges' = Append(cRanges, <<chunkStart(cIndex, cChunkSize),
                                  chunkEnd(cIndex, cChunkSize, cTotalSize)>>)
  /\ cIndex' = cIndex + 1
  /\ UNCHANGED <<cTotalSize, cChunkSize, uiVars, sharedVars, sessVars, copyVars>>

NextChunks == Slice

SpecChunks == InitChunks /\ [][NextChunks]_vars

\* ------------------------------------------ copy buttons as a specification
\* setupCopyButton of scripts.js and the click listener it attaches.  A copy
\* button or the element its selector names may be missing from the page;
\* the text of the content element changes when results are rendered.
setupCopyButton_always(btn, content) ==
  IF btn.exists /\ content # "absent"
  THEN [btn EXCEPT !.listeners = @ + 1, !.listenerAttached = TRUE]
  ELSE btn

\* setupCopyButton(buttonId, contentSelector)
setupCopyButton(btn, content) ==
  IF btn.exists /\ content # "absent"
  THEN IF btn.listenerAttached THEN btn
       ELSE [btn EXCEPT !.listeners = @ + 1, !.listenerAttached = TRUE]
  ELSE btn

\* writeText calls made by one listener: none when the trimmed text is empty
writesOfListener(content) == IF content = "text" THEN 1 ELSE 0

InitCopy ==
  /\ script = "corrected"
  /\ InitUI
  /\ InitSession
  /\ ChunksIdle
  /\ copyBtn \in [CopyButtons -> {NewButton(TRUE), NewButton(FALSE)}]
  /\ copyContent \in [CopyButtons -> {"absent", "blank", "text"}]
  /\ CopyLogEmpty

CopyFrame == UNCHANGED <<uiVars, sharedVars, sessVars, chunkVars>>

SetupCopy(b) ==
  /\ setupCalls[b] < MaxSetupCalls
  /\ setupCalls' = [setupCalls EXCEPT ![b] = @ + 1]
  /\ copyBtn' = [copyBtn EXCEPT ![b] = setupCopyButton(@, copyContent[b])]
  /\ UNCHANGED <<copyContent, clicks, clipboardWrites, lastClickWrites>>
  /\ CopyFrame

\* the text of the content element changes
RenderContent(b, text) ==
  /\ copyContent[b] # "absent"
  /\ text # copyContent[b]
  /\ copyContent' = [copyContent EXCEPT ![b] = text]
  /\ UNCHANGED <<copyBtn, setupCalls, clicks, clipboardWrites, lastClickWrites>>
  /\ CopyFrame

\* a click on the button: every attached listener runs
ClickCopy(b) ==
  /\ clicks < MaxClicks
  /\ copyBtn[b].exists /\ ~copyBtn[b].disabled
  /\ LET n == copyBtn[b].listeners * writesOfListener(copyContent[b])
     IN /\ copyBtn' = [copyBtn EXCEPT ![b].pendingWrites = @ + n]
        /\ clipboardWrites' = clipboardWrites + n
        /\ lastClickWrites' = n
  /\ clicks' = clicks + 1
  /\ UNCHANGED <<copyContent, setupCalls>>
  /\ CopyFrame

\* the promise of writeText settles: .then or .catch
WriteSettled(b, ok) ==
  /\ copyBtn[b].pendingWrites > 0
  /\ copyBtn' = [copyBtn EXCEPT ![b] =
                   IF ok THEN [@ EXCEPT !.pendingWrites = @ - 1,
                                        !.resetTimers = Append(@, copyBtn[b].textContent),
                                        !.textContent = "Copied!",
                                        !.disabled = TRUE]
                   ELSE [@ EXCEPT !.pendingWrites = @ - 1]]
  /\ UNCHANGED <<copyContent, setupCalls, clicks, clipboardWrites, lastClickWrites>>
  /\ CopyFrame

\* the 2000 ms timer of a successful copy fires
ResetCopied(b) ==
  /\ copyBtn[b].resetTimers # <<>>
  /\ copyBtn' = [copyBtn EXCEPT ![b].resetTimers = Tail(@),
                                ![b].textContent = Head(copyBtn[b].resetTimers),
                                ![b].disabled = FALSE]
  /\ UNCHANGED <<copyContent, setupCalls, clicks, clipboardWrites, lastClickWrites>>
  /\ CopyFrame

NextCopy ==
  \/ \E b \in CopyButtons : SetupCopy(b)
  \/ \E b \in CopyButtons, text \in {"blank", "text"} : RenderContent(b, text)
  \/ \E b \in CopyButtons : ClickCopy(b)
  \/ \E b \in CopyButtons, ok \in BOOLEAN : WriteSettled(b, ok)
  \/ \E b \in CopyButtons : ResetCopied(b)

SpecCopy == InitCopy /\ [][NextCopy]_vars

\* ------------------------------------------------------------- properties
ResponseOps == {"initiate", "chunk", "status"}

\* a submit event was handled after attempt a was created
Superseded(a) == attempts[a].born < submits

Items(a, kinds) == {r \in net : r.a = a /\ r.kind \in kinds}

OwnsTimer(a) == \E t \in timers : t.a = a

\* C1: in the corrected script, a response of an attempt that is processed
\* after a later submit event changes neither currentUploadId, pollIntervalId,
\* the displayed result or error, nor the parse button, and displays nothing.
C1_SupersededResponseIsInert ==
  [][ ( /\ script = "corrected"
        /\ last'.op \in ResponseOps
        /\ last'.a \in Attempts
        /\ Superseded(last'.a) )
      => ( /\ currentUploadId' = currentUploadId
           /\ pollIntervalId' = pollIntervalId
           /\ errorDisplay' = errorDisplay
           /\ resultsArea' = resultsArea
           /\ humanContentDiv' = humanContentDiv
           /\ parseButton' = parseButton
           /\ last'.calls = <<>> ) ]_vars

\* C2: the chunk requests of an attempt carry 0, 1, 2, ... without gap or
\* duplicate, at most one of them is unanswered at any time, index i+1 is
\* sent only after the success acknowledgment of index i was processed, and
\* an attempt that started polling has sent exactly 0 .. totalChunks-1.
IsCeilOfQuotient(n, total, size) == n * size >= total /\ (n - 1) * size < total

ChunksOnWire(a) == {w \in wire : w.url = "/upload-chunk" /\ w.by = a}

C2_ChunksInOrder ==
  \A a \in Attempts :
    LET att == attempts[a]
        sent == att.sentIdx
    IN /\ \A k \in 1 .. Len(sent) : sent[k] = k - 1
       /\ Cardinality(ChunksOnWire(a)) = Len(sent)
       /\ \A w \in ChunksOnWire(a) : w.chunk_index = w.seq - 1
       /\ Cardinality(Items(a, {"chunk"})) <= 1
       /\ Len(sent) <= att.acked + 1
       /\ Items(a, {"chunk"}) # {} => Len(sent) = att.acked + 1
       /\ att.pollStarted =>
            /\ Len(sent) = att.acked
            /\ IsCeilOfQuotient(Len(sent), att.totalSize, chunkSize)

C2_Witness ==
  \E a \in Attempts :
    /\ attempts[a].pollStarted
    /\ attempts[a].sentIdx = <<0, 1>>

\* C3: for totalSize >= 1 and chunkSize >= 1 the number of chunks is
\* ceil(totalSize / chunkSize) >= 1, and the slices [i*chunkSize,
\* min((i+1)*chunkSize, totalSize)) are non-empty, pairwise disjoint,
\* contiguous and cover [0, totalSize); 12000000 bytes in chunks of 5242880
\* give [0,5242880), [5242880,10485760), [10485760,12000000).
C3_ChunksPartitionTheBlob ==
  (cTotalSize >= 1 /\ cChunkSize >= 1) =>
    LET n == totalChunksOf(cTotalSize, cChunkSize)
    IN /\ IsCeilOfQuotient(n, cTotalSize, cChunkSize)
       /\ n >= 1
       /\ Len(cRanges) = cIndex /\ cIndex <= n
       /\ \A k \in 1 .. Len(cRanges) :
            /\ cRanges[k][1] < cRanges[k][2]
            /\ cRanges[k][1] = IF k = 1 THEN 0 ELSE cRanges[k - 1][2]
            /\ cRanges[k][2] <= cTotalSize
            /\ \A j \in 1 .. Len(cRanges) :
                 j < k => cRanges[j][2] <= cRanges[k][1]
       /\ cIndex = n => cRanges[n][2] = cTotalSize
       /\ (cTotalSize = 12000000 /\ cChunkSize = 5242880 /\ cIndex = n) =>
            cRanges = << <<0, 5242880>>, <<5242880, 10485760>>, <<10485760, 12000000>> >>

C3_Witness ==
  /\ cTotalSize = 12000000 /\ cChunkSize = 5242880
  /\ Len(cRanges) = 3

\* C4: a submit event whose text is empty or only white space, or whose
\* token is missing, sends no request, creates no attempt (currentUploadId is
\* not set: null after the corrected script's handler, left as it was by the
\* first script's) and displays a validation error.
IsBlank(text) == \A k \in 1 .. Len(text) : text[k].c = "ws"

ValidationMessages ==
  { Msg("Please paste some Blueprint text.", 0, ""),
    Msg("Client error: CSRF token missing. Please refresh.", 0, "") }

C6_PartialFailureShowsBoth ==
  ( /\ last.op = "status"
    /\ last.input.stage = "json"
    /\ last.input.body.status = "PARTIAL_FAILURE"
    /\ last.input.body.hasResult
    /\ last.input.body.result.output
    /\ last.input.body.result.error )
  => ( /\ resultsArea = "block"
       /\ humanContentDiv = OutputOf(attempts[last.a].taskId)
       /\ errorDisplay.display = "block"
       /\ errorDisplay.className = "alert alert-warning"
       /\ errorDisplay.textContent = IssuesMsg )

\* C9: in the corrected script, no response of an attempt that is processed
\* after a later submit event displays a failure.
C9_NoFailureOfSupersededShown ==
  ( /\ script = "corrected"
    /\ last.op \in ResponseOps
    /\ last.a \in Attempts
    /\ Superseded(last.a) )
  => (last.calls = <<>> \/ last.calls[1] # "displayErrorInline")

\* C5: for a poller with no submit event since its attempt was created,
\* whose processed status responses are zero or more of PENDING / STARTED /
\* PROCESSING followed by one terminal status, the outcome has been delivered
\* exactly once, it is what that terminal response carries, and the timer is
\* dead, so that no status request is issued afterwards.
NonTerminalsThenTerminal(log) ==
  /\ Len(log) >= 1
  /\ log[Len(log)] \in TerminalStatuses
  /\ \A k \in 1 .. Len(log) - 1 : log[k] \in ProcessingStatuses

CarriesPayload(o, att, status) ==
  IF status \in {"SUCCESS", "PARTIAL_FAILURE"}
  THEN /\ o.calls[1] = "displayResultsInline"
       /\ o.content \in {OutputOf(att.taskId), NoOutputPlaceholder}
  ELSE /\ o.calls = <<"displayErrorInline">>
       /\ o.content \in {Msg("", 0, "task error"), Msg("Task failed with status", 0, status)}

C5_PollerDeliversOnce ==
  \A a \in Attempts :
    LET att == attempts[a]
        log == att.statusLog
    IN /\ (att.born = submits /\ NonTerminalsThenTerminal(log)) =>
            /\ Len(att.outcomes) = 1
            /\ CarriesPayload(att.outcomes[1], att, log[Len(log)])
       /\ (\E k \in 1 .. Len(log) : log[k] \in TerminalStatuses) => ~OwnsTimer(a)

C5_Witness ==
  \E a \in Attempts :
    /\ attempts[a].born = submits
    /\ attempts[a].statusLog = <<"PROCESSING", "SUCCESS">>
    /\ Len(attempts[a].outcomes) = 1
    /\ humanContentDiv = OutputOf(attempts[a].taskId)

\* C7: in the corrected script at most one attempt is non-terminal (it has a
\* continuation that passes the identity guard, or owns the live timer), at
\* most one attempt passes the identity guard, and only a non-terminal
\* attempt sends a request.
PassesGuard(a) ==
  /\ currentUploadId # null
  /\ \/ currentUploadId = attempts[a].uploadIdForThisAttempt
     \/ currentUploadId = attempts[a].confirmedUploadId

HasContinuation(a) == Items(a, {"initiate", "chunk"}) # {} \/ attempts[a].timeout

NonTerminal(a) == (HasContinuation(a) /\ PassesGuard(a)) \/ OwnsTimer(a)

C7_AtMostOneNonTerminal ==
  /\ [](script = "corrected" =>
          /\ Cardinality({a \in Attempts : NonTerminal(a)}) <= 1
          /\ Cardinality({a \in Attempts : PassesGuard(a)}) <= 1
          /\ \A a \in Attempts : NonTerminal(a) <=> PassesGuard(a))
  /\ [][script = "corrected" =>
          \A w \in wire' \ wire : w.by \in Attempts => NonTerminal(w.by)]_vars

C7_Witness ==
  /\ script = "corrected"
  /\ \E a, b \in Attempts :
       /\ a # b
       /\ HasContinuation(a) /\ ~PassesGuard(a)
       /\ NonTerminal(b) /\ attempts[b].sentIdx # <<>>

\* C8: in the corrected script the upload identifier of an attempt is set
\* once, from the attempt's own initiate response; every chunk request
\* carries it; no request carries a client-generated identifier.
C8_ServerIdOnly ==
  /\ [](script = "corrected" =>
          \A w \in wire :
            /\ w.url = "/upload-chunk" =>
                 /\ w.upload_id = serverUploadId(w.by)
                 /\ w.upload_id = attempts[w.by].confirmedUploadId
            /\ \A b \in Attempts :
                 /\ w.upload_id # attempts[b].uploadIdForThisAttempt
                 /\ w.task_id # attempts[b].uploadIdForThisAttempt)
  /\ [][script = "corrected" =>
          \A a \in Attempts :
            attempts'[a].confirmedUploadId # attempts[a].confirmedUploadId =>
              /\ attempts[a].confirmedUploadId = null
              /\ attempts'[a].confirmedUploadId = serverUploadId(a)
              /\ last'.op = "initiate" /\ last'.a = a
              /\ last'.input.stage = "json"]_vars

C8_Witness ==
  /\ script = "corrected"
  /\ \E w \in wire :
       /\ w.url = "/upload-chunk" /\ w.chunk_index = 1
       /\ w.upload_id = serverUploadId(w.by)

\* C10: in the corrected script, when the request for chunk i of the active
\* attempt fails (rejected fetch, non-ok response, body without status
\* 'success'), a failure naming chunk i+1 (counted from 1) is displayed,
\* currentUploadId is cleared, and the attempt sends no chunk request and
\* starts no polling afterwards.
ChunkFailure(inp) ==
  \/ inp.stage = "fetch" /\ inp.resp = "reject"
  \/ inp.stage = "errjson"
  \/ inp.stage = "json" /\ inp.body.status # "success"

ShowedChunkFailureIn(atts, a) ==
  \E k \in 1 .. Len(atts[a].outcomes) :
    /\ atts[a].outcomes[k].calls = <<"displayErrorInline">>
    /\ atts[a].outcomes[k].content.prefix = "Upload failed on chunk"
    /\ atts[a].outcomes[k].content.chunk = Len(atts[a].sentIdx)

ShowedChunkFailure(a) == ShowedChunkFailureIn(attempts, a)

C10_ChunkFailureAborts ==
  /\ [][ ( /\ script = "corrected"
           /\ last'.op = "chunk"
           /\ ChunkFailure(last'.input)
           /\ currentUploadId = attempts[last'.a].confirmedUploadId )
         => LET a == last'.a
                r == CHOOSE x \in Items(a, {"chunk"}) : TRUE
            IN /\ errorDisplay'.display = "block"
               /\ errorDisplay'.className = "alert alert-danger"
               /\ errorDisplay'.textContent.prefix = "Upload failed on chunk"
               /\ errorDisplay'.textContent.chunk = r.n + 1
               /\ currentUploadId' = null
               /\ wire' = wire
               /\ {x \in net' : x.a = a} = {}
               /\ ~attempts'[a].timeout
               /\ ShowedChunkFailureIn(attempts', a) ]_vars
  /\ [](script = "corrected" =>
          \A a \in Attempts : ShowedChunkFailure(a) =>
            /\ Items(a, {"initiate", "chunk", "status"}) = {}
            /\ ~attempts[a].timeout
            /\ ~attempts[a].pollStarted
            /\ ~OwnsTimer(a)
            /\ ~PassesGuard(a)
            /\ attempts[a].ticks = 0)

C10_Witness ==
  /\ script = "corrected"
  /\ last.op = "chunk"
  /\ last.input.stage = "json" /\ last.input.body.status = "error"
  /\ attempts[last.a].sentIdx = <<0, 1>>
  /\ ShowedChunkFailure(last.a)
  /\ errorDisplay.textContent.chunk = 2
  /\ currentUploadId = null

\* C11: in the corrected script, when the continuation that finds the
\* initiate response of the active attempt bad runs (the body of a non-ok
\* response has been read, or the body of an ok response has a status other
\* than 'success' or lacks task_id or upload_id), an initiation failure is
\* displayed and the attempt is over; an attempt sends chunk or status
\* requests only after it processed a well-formed successful initiate body,
\* and an attempt whose only initiate request ended without one never does.
InitiateFailure(inp) ==
  \/ inp.stage = "errjson"
  \/ /\ inp.stage = "json"
     /\ (inp.body.status # "success" \/ ~inp.body.task_id \/ ~inp.body.upload_id)

WellFormedInitiate(inp) ==
  /\ inp.stage = "json"
  /\ inp.body.parsable /\ inp.body.status = "success"
  /\ inp.body.task_id /\ inp.body.upload_id

NeverInitiated(atts, nt, a) ==
  /\ atts[a].confirmedUploadId = null
  /\ {r \in nt : r.a = a /\ r.kind = "initiate"} = {}

C11_InitiationFailure ==
  /\ [][ ( /\ script = "corrected"
           /\ last'.op = "initiate"
           /\ InitiateFailure(last'.input)
           /\ currentUploadId = attempts[last'.a].uploadIdForThisAttempt )
         => ( /\ errorDisplay'.display = "block"
              /\ errorDisplay'.className = "alert alert-danger"
              /\ errorDisplay'.textContent.prefix = "Upload initiation failed"
              /\ last'.calls = <<"displayErrorInline">>
              /\ wire' = wire
              /\ NeverInitiated(attempts', net', last'.a) ) ]_vars
  /\ [][ script = "corrected" =>
           \A a \in Attempts :
             /\ NeverInitiated(attempts, net, a) => NeverInitiated(attempts', net', a)
             /\ attempts'[a].confirmedUploadId # attempts[a].confirmedUploadId =>
                  /\ last'.op = "initiate" /\ last'.a = a
                  /\ WellFormedInitiate(last'.input) ]_vars
  /\ [](script = "corrected" =>
          \A a \in Attempts :
            attempts[a].confirmedUploadId = null =>
              /\ attempts[a].sentIdx = <<>>
              /\ attempts[a].ticks = 0
              /\ ~attempts[a].pollStarted
              /\ ~OwnsTimer(a)
              /\ {w \in wire : w.by = a /\ w.url # "/initiate-upload"} = {})

C11_Witness ==
  /\ script = "corrected"
  /\ last.op = "initiate"
  /\ last.input.stage = "json"
  /\ last.input.body.status = "success" /\ ~last.input.body.upload_id
  /\ errorDisplay.display = "block"
  /\ errorDisplay.textContent.prefix = "Upload initiation failed"
  /\ NeverInitiated(attempts, net, last.a)
  /\ attempts[last.a].sentIdx = <<>>

\* C12: when a status response reports FAILURE or UNEXPECTED_RESULT or a
\* status outside the seven known ones, or the status request fails (fetch
\* rejected, non-ok response, unreadable body), a failure with a message is
\* displayed, no timer is live and pollIntervalId is null afterwards, also
\* when the timer had been cleared before; a status request is issued only by
\* the callback of the live timer, and the poller of an attempt that logged
\* such a failure never owns a timer again.
StatusFailure(inp) ==
  \/ inp.stage = "fetch"
  \/ /\ inp.stage = "json"
     /\ inp.body.status \notin ({"SUCCESS", "PARTIAL_FAILURE"} \cup ProcessingStatuses)

FailureEntry(e) == e \notin ({"SUCCESS", "PARTIAL_FAILURE"} \cup ProcessingStatuses)

PollFailureMessages ==
  { "", "Task failed with status", "Task ended with unexpected status",
    "Error checking task status" }

C12_PollFailureStops ==
  /\ [][ (last'.op = "status" /\ StatusFailure(last'.input))
         => ( /\ last'.calls = <<"displayErrorInline">>
              /\ errorDisplay'.display = "block"
              /\ errorDisplay'.className = "alert alert-danger"
              /\ errorDisplay'.textContent # NoMsg
              /\ errorDisplay'.textContent.prefix \in PollFailureMessages
              /\ pollIntervalId' = null
              /\ timers' = {}
              /\ wire' = wire ) ]_vars
  /\ [][ \A w \in wire' \ wire :
           w.url = "/status/" =>
             /\ last'.op = "tick"
             /\ [id |-> pollIntervalId, a |-> w.by] \in timers ]_vars
  /\ [](/\ \A t \in timers : t.id = pollIntervalId
        /\ \A a \in Attempts :
             (\E k \in 1 .. Len(attempts[a].statusLog) :
                FailureEntry(attempts[a].statusLog[k])) => ~OwnsTimer(a))

C12_Witness ==
  \E a \in Attempts :
    /\ attempts[a].born = submits
    /\ attempts[a].statusLog = <<"FAILURE", "RETRY">>
    /\ last.op = "status" /\ last.a = a
    /\ errorDisplay.textContent = Msg("Task ended with unexpected status", 0, "RETRY")
    /\ pollIntervalId = null /\ timers = {}

\* C13: for one poller at most one status request is in flight at any time.
C13_OneStatusInFlight ==
  \A a \in Attempts : Cardinality(Items(a, {"status"})) <= 1

\* C14: a submit event leaves no timer live and pollIntervalId null, whether
\* or not the submission passes validation, and issues no status request; a
\* poller that has lost its timer never gets one again, and a status request
\* is issued only for the attempt that owns a live timer, so that no status
\* request for the earlier task follows the submission.
C14_SubmitStopsPolling ==
  /\ [][ submits' = submits + 1
         => ( /\ pollIntervalId' = null
              /\ timers' = {}
              /\ \A w \in wire' \ wire : w.url = "/initiate-upload" ) ]_vars
  /\ [][ \A a \in Attempts :
           (attempts[a].pollStarted /\ ~OwnsTimer(a)) => ~OwnsTimer(a)' ]_vars
  /\ [][ \A w \in wire' \ wire : w.url = "/status/" => OwnsTimer(w.by) ]_vars

C14_Witness ==
  \E a \in Attempts :
    /\ last.op = "submit"
    /\ submits = attempts[a].born + 1
    /\ attempts[a].pollStarted
    /\ attempts[a].statusLog = <<>>
    /\ Items(a, {"status"}) # {}
    /\ ~OwnsTimer(a)

\* C15: in the corrected script, a continuation of the upload of an attempt
\* (initiate or chunk response, deferred uploadNextChunk) that runs after a
\* later submit event ends the attempt silently: it sends nothing, starts no
\* timer, leaves currentUploadId, pollIntervalId and the page as they were,
\* and leaves the attempt without continuation; a superseded attempt never
\* passes the identity guard, and every chunk request is sent by an attempt
\* whose confirmed identifier is currentUploadId at that moment.
UploadOps == {"initiate", "chunk", "timeout"}

C15_SupersededUploadStopsSilently ==
  /\ [][ ( /\ script = "corrected"
           /\ last'.op \in UploadOps
           /\ last'.a \in Attempts
           /\ Superseded(last'.a) )
         => ( /\ wire' = wire
              /\ last'.calls = <<>>
              /\ UNCHANGED <<uiVars, sharedVars>>
              /\ attempts'[last'.a] = [attempts[last'.a] EXCEPT !.timeout = FALSE]
              /\ {r \in net' : r.a = last'.a /\ r.kind \in {"initiate", "chunk"}} = {} ) ]_vars
  /\ [][ script = "corrected" =>
           \A w \in wire' \ wire :
             w.url = "/upload-chunk" =>
               /\ currentUploadId' # null
               /\ currentUploadId' = attempts'[w.by].confirmedUploadId
               /\ attempts'[w.by].born = submits' ]_vars
  /\ [](script = "corrected" =>
          \A a \in Attempts :
            Superseded(a) => (~PassesGuard(a) /\ ~OwnsTimer(a)))

C15_Witness ==
  \E a \in Attempts :
    /\ script = "corrected"
    /\ Superseded(a)
    /\ last.op = "chunk" /\ last.a = a
    /\ last.input.stage = "json" /\ last.input.body.status = "success"
    /\ last.calls = <<>>
    /\ attempts[a].totalChunks = 2
    /\ attempts[a].sentIdx = <<0>>
    /\ ~attempts[a].timeout
    /\ Items(a, {"initiate", "chunk"}) = {}

\* C16: in the corrected script, if the n-th submit event created an attempt
\* and is the last submit event, every request is answered, and no poller is
\* left polling for ever (the server reports a terminal status), then a
\* continuation of that attempt eventually displays an outcome.
C16_LatestSubmissionDelivers ==
  \A n \in 1 .. MaxSubmits :
    ( /\ <>[](script = "corrected" /\ submits = n /\ \E a \in Attempts : attempts[a].born = n)
      /\ []<>(timers = {}) )
    => <>(\E a \in Attempts : attempts[a].born = n /\ attempts[a].outcomes # <<>>)

\* C17: currentUploadId is written only by the task of a submit event; no
\* continuation of a response and no timer callback changes it.
C17_OnlySubmitWritesCurrentUploadId ==
  [][currentUploadId' # currentUploadId => last'.op = "submit"]_vars

\* C18: a status response PENDING, STARTED or PROCESSING leaves the timers,
\* pollIntervalId and currentUploadId as they were, displays nothing and
\* sends nothing, however many came before it; in the corrected script, as
\* long as the page has processed only such status responses and no submit
\* event followed the attempt, a poller that started still owns the live
\* timer, holds currentUploadId and has delivered no outcome.
NonTerminalNames == {"PENDING", "STARTED", "PROCESSING"}

OnlyNonTerminalsSoFar ==
  \A b \in Attempts :
    \A k \in 1 .. Len(attempts[b].statusLog) : attempts[b].statusLog[k] \in NonTerminalNames

C18_NonTerminalKeepsPolling ==
  /\ [][ ( /\ last'.op = "status"
           /\ last'.input.stage = "json"
           /\ last'.input.body.status \in NonTerminalNames )
         => ( /\ UNCHANGED <<timers, pollIntervalId, currentUploadId, timerSeq>>
              /\ UNCHANGED <<parseButton, errorDisplay, resultsArea, humanContentDiv>>
              /\ processingIndicator' = "flex"
              /\ last'.calls = <<>>
              /\ wire' = wire
              /\ attempts'[last'.a].outcomes = attempts[last'.a].outcomes ) ]_vars
  /\ [](\A a \in Attempts :
          ( /\ script = "corrected"
            /\ attempts[a].pollStarted
            /\ attempts[a].born = submits
            /\ OnlyNonTerminalsSoFar )
          => ( /\ timers = {[id |-> pollIntervalId, a |-> a]}
               /\ currentUploadId = attempts[a].confirmedUploadId
               /\ attempts[a].outcomes = <<>> ))

C18_Witness ==
  \E a \in Attempts :
    /\ attempts[a].born = submits
    /\ attempts[a].statusLog = <<"PENDING", "STARTED">>
    /\ last.op = "status" /\ last.a = a
    /\ OwnsTimer(a)
    /\ attempts[a].outcomes = <<>>

\* C19: every status request was issued for an attempt that had processed the
\* success acknowledgment of each of its ceil(totalSize / chunkSize) >= 1
\* chunks, the last one included, and carries the task_id of that attempt's
\* own initiate response.
StatusOnWire(a) == {w \in wire : w.url = "/status/" /\ w.by = a}

C19_PollOnlyAfterLastChunk ==
  /\ \A w \in StatusRequests :
       LET att == attempts[w.by]
       IN /\ att.pollStarted
          /\ att.totalChunks >= 1
          /\ IsCeilOfQuotient(att.totalChunks, att.totalSize, chunkSize)
          /\ att.acked = att.totalChunks
          /\ att.sentIdx = [k \in 1 .. att.totalChunks |-> k - 1]
          /\ Items(w.by, {"initiate", "chunk"}) = {}
          /\ w.task_id # null
          /\ w.task_id = att.taskId
          /\ w.task_id = serverTaskId(w.by)
  /\ \A a \in Attempts :
       /\ Cardinality(StatusOnWire(a)) = attempts[a].ticks
       /\ (attempts[a].pollStarted \/ OwnsTimer(a) \/ attempts[a].statusLog # <<>>)
            => attempts[a].acked = attempts[a].totalChunks /\ attempts[a].acked >= 1

C19_Witness ==
  \E w \in StatusRequests :
    /\ w.by = 2
    /\ attempts[2].sentIdx = <<0, 1>>
    /\ w.task_id = serverTaskId(2)

\* C20: in the corrected script, once a submit event that failed validation
\* has followed the latest attempt, no task sends a chunk or status request
\* for that attempt and none of its continuations displays an outcome.
C20_InvalidSubmitSupersedes ==
  [][ ( /\ script = "corrected"
        /\ attempts # <<>>
        /\ attempts[Len(attempts)].born < submits
        /\ submits' = submits )
      => ( /\ wire' = wire
           /\ last'.calls = <<>>
           /\ attempts'[Len(attempts)].outcomes = attempts[Len(attempts)].outcomes ) ]_vars

\* C21: in the corrected script, once the attempt of the latest submit event
\* has displayed an outcome, no task other than that of a submit event changes
\* what is displayed.
C21_OutcomeIsAbsorbing ==
  [][ ( /\ script = "corrected"
        /\ \E a \in Attempts : attempts[a].born = submits /\ attempts[a].outcomes # <<>>
        /\ submits' = submits )
      => UNCHANGED <<errorDisplay, resultsArea, humanContentDiv>> ]_vars

\* C22: in the first script, a continuation of an attempt that runs when a
\* newer attempt exists leaves the parse button, the error display, the
\* results and the timers as they were and displays nothing.
C22_FirstScriptOlderAttemptIsInert ==
  [][ ( /\ script = "first"
        /\ last'.op \in ResponseOps
        /\ last'.a \in Attempts
        /\ last'.a < Len(attempts) )
      => ( /\ UNCHANGED <<parseButton, errorDisplay, resultsArea, humanContentDiv>>
           /\ UNCHANGED <<timers, pollIntervalId>>
           /\ last'.calls = <<>> ) ]_vars

\* C23: at most one timer is live; pollIntervalId is non-null exactly when a
\* timer is live, and is then the identifier of that timer.
C23_OneTimer ==
  /\ Cardinality(timers) <= 1
  /\ pollIntervalId # null <=> timers # {}
  /\ \A t \in timers : t.id = pollIntervalId

C23_Witness ==
  /\ timerSeq = 2
  /\ pollIntervalId = <<"interval", 2>>
  /\ timers = {[id |-> <<"interval", 2>>, a |-> 2]}

\* C24: in the corrected script, a live timer disappears only in the task of
\* a submit event or in the processing of a response to a status request of
\* the attempt it polls for.
C24_TimerClearedOnlyByOwner ==
  [][ script = "corrected" =>
        \A t \in timers :
          t \notin timers' =>
            \/ last'.op = "submit"
            \/ last'.op = "status" /\ last'.a = t.a ]_vars

\* C25: in the corrected script, every task that displays an outcome (result,
\* partial result, failure, validation error) leaves currentUploadId null,
\* pollIntervalId null and no timer live.
C25_NothingActiveAfterOutcome ==
  [][ (script = "corrected" /\ last'.calls # <<>>)
      => ( /\ currentUploadId' = null
           /\ pollIntervalId' = null
           /\ timers' = {} ) ]_vars

C25_Witness ==
  /\ script = "corrected"
  /\ last.op = "status"
  /\ last.calls = <<"displayResultsInline">>
  /\ resultsArea = "block"
  /\ currentUploadId = null /\ pollIntervalId = null /\ timers = {}

\* C26: in the corrected script, in every state with no request in flight,
\* no live timer and no pending timeout, the parse button is enabled.
Quiescent ==
  /\ net = {}
  /\ timers = {}
  /\ \A a \in Attempts : ~attempts[a].timeout

C26_ButtonNotStuck ==
  (script = "corrected" /\ Quiescent) => parseButton = FALSE

C26_Witness ==
  /\ script = "corrected"
  /\ Quiescent
  /\ Len(attempts) = 2
  /\ attempts[2].outcomes = <<>>
  /\ attempts[2].sentIdx = <<0>>
  /\ parseButton = FALSE

\* C27: in the corrected script the parse button is disabled whenever
\* currentUploadId is non-null or a timer is live, and a step that enables
\* the button leaves currentUploadId null and no timer live.
C27_ButtonDisabledWhileActive ==
  /\ [](script = "corrected" =>
          ((currentUploadId # null \/ timers # {}) => parseButton = TRUE))
  /\ [][ (script = "corrected" /\ parseButton = TRUE /\ parseButton' = FALSE)
         => (currentUploadId' = null /\ timers' = {} /\ pollIntervalId' = null) ]_vars

C27_Witness ==
  /\ script = "corrected"
  /\ timers # {}
  /\ parseButton = TRUE
  /\ \E a \in Attempts : attempts[a].statusLog = <<"PROCESSING">>

\* C28: an attempt with n chunks sends at most n chunk requests, with
\* indices below n, and starts polling only after n acknowledgments; and if
\* no submit event follows it and every request is answered, it eventually
\* starts polling or displays a failure.
C28_UploadPhaseTerminates ==
  /\ [](\A a \in Attempts :
          attempts[a].totalChunks >= 1 =>
            /\ Len(attempts[a].sentIdx) <= attempts[a].totalChunks
            /\ \A k \in 1 .. Len(attempts[a].sentIdx) :
                 attempts[a].sentIdx[k] < attempts[a].totalChunks
            /\ attempts[a].pollStarted => attempts[a].acked = attempts[a].totalChunks)
  /\ \A a \in 1 .. MaxSubmits :
       <>[](/\ a \in Attempts
            /\ attempts[a].born = submits
            /\ attempts[a].totalChunks >= 1)
       => <>(/\ a \in Attempts
             /\ (attempts[a].pollStarted \/ attempts[a].outcomes # <<>>))

\* C29: when the body of a non-ok response of /initiate-upload or
\* /upload-chunk is parsable and has a message, the error that is displayed
\* carries that message.
C29_ServerMessageShown ==
  [][ ( /\ last'.op \in {"initiate", "chunk"}
        /\ last'.input.stage = "errjson"
        /\ last'.input.body.parsable
        /\ last'.input.body.message # ""
        /\ last'.calls # <<>> )
      => errorDisplay'.textContent.cause = last'.input.body.message ]_vars

\* C30: however often setupCopyButton was called for a button, when the
\* button and its content element exist exactly one click listener is
\* attached once it was called at all (none before), and a click makes at
\* most one clipboard write.
C30_SetupCopyButtonIdempotent ==
  /\ \A b \in CopyButtons :
       /\ copyBtn[b].listeners <= 1
       /\ (copyBtn[b].exists /\ copyContent[b] # "absent") =>
            /\ setupCalls[b] >= 1 => (copyBtn[b].listeners = 1 /\ copyBtn[b].listenerAttached)
            /\ setupCalls[b] = 0 => copyBtn[b].listeners = 0
  /\ lastClickWrites <= 1
  /\ clipboardWrites <= clicks

C30_Witness ==
  \E b \in CopyButtons :
    /\ setupCalls[b] = 3
    /\ copyBtn[b].listeners = 1
    /\ clicks = 2
    /\ clipboardWrites = 2
    /\ lastClickWrites = 1

\* C31: a copy button shows 'Copied!' only while it is disabled and a reset
\* timer is pending; an enabled button, and a button with no clipboard write
\* and no reset timer pending, shows the label it was served with.
C31_LabelRestored ==
  \A b \in CopyButtons :
    /\ copyBtn[b].textContent = "Copied!" =>
         (copyBtn[b].disabled /\ copyBtn[b].resetTimers # <<>>)
    /\ (copyBtn[b].pendingWrites = 0 /\ copyBtn[b].resetTimers = <<>>) =>
         (copyBtn[b].textContent = OriginalLabel /\ ~copyBtn[b].disabled)

====
